---- MODULE Spec2Model ----
(***************************************************************************)
(* Model of getting_started/examples/eval_gr00t_so100.py: the SO100Robot   *)
(* wrapper (connect / disconnect / enable / disable / set_target_state),   *)
(* the CustomGr00tRobotInferenceClient observation layout and the          *)
(* __main__ control loop.                                                  *)
(*                                                                         *)
(* Calls into lerobot, the policy server, rerun and matplotlib are         *)
(* external: each completed call is appended to `trace`; hardware and      *)
(* network calls may raise instead of completing.                          *)
(*                                                                         *)
(* The library's robot.connect() / robot.disconnect() are modelled as the  *)
(* source shows them: they do not themselves assign robot.is_connected.    *)
(* The response of the policy server (chunk length, width of the entries)  *)
(* is an input chosen per request.  go_home, the image viewers and the     *)
(* single-camera client are not used by the script and are left out.       *)
(*                                                                         *)
(* Two specifications:                                                     *)
(*   Spec     the script: `with robot.activate():` and the control loop    *)
(*   SpecAPI  a client calling the SO100Robot methods in any order         *)
(***************************************************************************)
EXTENDS Integers, Sequences, FiniteSets, TLC

\* ---------------------------------------------------------------- bounds
MaxActions == 3
MaxHorizon == 3
MaxChunk == 3
MaxArms == 2
MaxCalls == 3

\* ------------------------------------------------------ program constants
\* length of the pose of one arm (move_to_initial_pose / go_home)
MotorsPerArm == 6
\* assert concat_action.shape == (12,)
AssertedLen == 12
\* width of an arm entry of a well-formed response (state[:5], state[6:11])
ArmDim == 5

VARIABLES
    ACTIONS_TO_EXECUTE,  \* args.actions_to_execute
    ACTION_HORIZON,      \* args.action_horizon
    num_follower_arms,   \* len(self.follower_arms)
    is_connected,        \* self.robot.is_connected
    pc,                  \* position in the code (line label)
    stack,               \* call sites of the active calls, innermost first
    exc,                 \* exception propagating to / delivered to the caller
    arm,                 \* loop variable of `for arm_name, arm in follower_arms`
    reg,                 \* index of the next preset write of set_so100_robot_preset
    outer_iter,          \* position of the iterator of range(ACTIONS_TO_EXECUTE)
    inner_iter,          \* position of the iterator of range(ACTION_HORIZON)
    i,                   \* the loop variable `i` (shared by the three loops)
    state,               \* the variable `state` of __main__
    action,              \* the variable `action` of __main__ (policy response)
    concat_action,       \* the variable `concat_action` of __main__
    target_state,        \* the argument of set_target_state
    nreads,              \* number of robot state vectors read so far
    nreqs,               \* number of inference requests answered so far
    ncalls,              \* number of API calls made (SpecAPI)
    trace                \* completed external calls, in order

vars == <<ACTIONS_TO_EXECUTE, ACTION_HORIZON, num_follower_arms, is_connected,
          pc, stack, exc, arm, reg, outer_iter, inner_iter, i, state, action,
          concat_action, target_state, nreads, nreqs, ncalls, trace>>

inputs == <<ACTIONS_TO_EXECUTE, ACTION_HORIZON, num_follower_arms>>
loopvars == <<outer_iter, inner_iter, i, state, action, concat_action, target_state,
              nreads, nreqs>>

\* ------------------------------------------------------------ pure helpers
\* numpy / python slice v[a:b] of a 1-d vector (0-based, clipped to the length)
Slice(v, a, b) ==
    LET hi == IF b < Len(v) THEN b ELSE Len(v)
    IN  IF a >= hi THEN <<>> ELSE [k \in 1..(hi - a) |-> v[a + k]]

RECURSIVE Flatten(_)
\* np.concatenate(parts, axis=0) of 1-d vectors
Flatten(parts) ==
    IF parts = <<>> THEN <<>> ELSE Head(parts) \o Flatten(Tail(parts))

\* torch.tensor([...6 values...]).repeat(n): the pose entry j of every arm
Repeat(pose, n) == [k \in 1..(MotorsPerArm * n) |-> [pose |-> pose, j |-> (k - 1) % MotorsPerArm]]

\* the state vector returned by the n-th capture_observation()["observation.state"]
StateVec(n, arms) == [k \in 1..(MotorsPerArm * arms) |-> [read |-> n, j |-> k - 1]]

\* the seven register writes of set_so100_robot_preset, in order
PRESET == << <<"Mode", 0>>, <<"P_Coefficient", 10>>, <<"I_Coefficient", 0>>,
             <<"D_Coefficient", 32>>, <<"Lock", 0>>,
             <<"Maximum_Acceleration", 254>>, <<"Acceleration", 254>> >>

\* variant: the keys listed arms first, grippers last
MODALITY_KEYS_arms_first ==
    <<"action.main_arm", "action.cv_arm", "action.main_gripper", "action.cv_gripper">>

MODALITY_KEYS == <<"action.main_arm", "action.main_gripper", "action.cv_arm", "action.cv_gripper">>

\* CustomGr00tRobotInferenceClient.get_action: the slice bounds of each state key
STATE_SLICES == [main_arm |-> <<0, 5>>, main_gripper |-> <<5, 6>>,
                 cv_arm |-> <<6, 11>>, cv_gripper |-> <<11, 12>>]

\* the state part of obs_dict
ObsState(s) == [key \in DOMAIN STATE_SLICES |->
                  Slice(s, STATE_SLICES[key][1], STATE_SLICES[key][2])]

\* ------------------------------------------------- calls, returns, raises
\* Call sites: "L83" connect() in activate, "L84" move_to_initial_pose() in
\* activate, "L87" disconnect() in activate's finally, "L217" disable() in
\* disconnect, "L397" set_target_state() in the control loop, "api" a call by
\* an outside client.

\* where execution continues when the call made at `site` returns
Continuation(site) ==
    CASE site = "L83" -> "L84"
      [] site = "L84" -> "L378"
      [] site = "L87" -> "exit"
      [] site = "L217" -> "L218"
      [] site = "L397" -> "L398"
      [] site = "api" -> "idle"

\* where execution continues when the call made at `site` raises
Handler(site) ==
    CASE site = "L83" -> "L87"
      [] site = "L84" -> "L87"
      [] site = "L217" -> "L221"
      [] site = "L397" -> "L87"
      [] site = "api" -> "idle"

\* `return` from the current method
Return ==
    /\ pc' = Continuation(Head(stack))
    /\ stack' = Tail(stack)
    /\ exc' = exc

\* `raise e` in the current method; inside the with-block of __main__ (no
\* active call) the exception is thrown into activate() at its yield
Raise(e) ==
    IF stack = <<>>
    THEN /\ pc' = "L87"
         /\ exc' = e
         /\ stack' = stack
    ELSE /\ pc' = Handler(Head(stack))
         /\ stack' = Tail(stack)
         \* disconnect() swallows what disable() raises (except Exception)
         /\ exc' = IF Head(stack) = "L217" THEN exc ELSE e

\* ------------------------------------------------------ SO100Robot.connect
\* variant: connect() without the is_connected guard of lines 90-93
connect_L90_unguarded ==
    /\ pc = "L90"
    /\ pc' = "L95"
    /\ UNCHANGED <<inputs, is_connected, stack, exc, arm, reg, loopvars, ncalls, trace>>

connect_L90 ==
    /\ pc = "L90"
    /\ IF is_connected
       THEN Raise("RobotDeviceAlreadyConnectedError")
       ELSE /\ pc' = "L95"
            /\ UNCHANGED <<stack, exc>>
    /\ UNCHANGED <<inputs, is_connected, arm, reg, loopvars, ncalls, trace>>

connect_L95 ==
    /\ pc = "L95"
    /\ \/ /\ trace' = Append(trace, [op |-> "robot.connect", line |-> 95])
          /\ arm' = 1
          /\ reg' = 1
          /\ pc' = "L99"
          /\ UNCHANGED <<stack, exc>>
       \/ /\ Raise("DeviceError")
          /\ UNCHANGED <<arm, reg, trace>>
    /\ UNCHANGED <<inputs, is_connected, loopvars, ncalls>>

\* one motor_bus.write of set_so100_robot_preset(arm)
set_so100_robot_preset ==
    /\ pc = "L99"
    /\ \/ /\ trace' = Append(trace, [op |-> "write", line |-> 99, arm |-> arm,
                                     reg |-> PRESET[reg][1], val |-> PRESET[reg][2]])
          /\ IF reg < Len(PRESET)
             THEN /\ reg' = reg + 1
                  /\ pc' = "L99"
             ELSE /\ reg' = 1
                  /\ pc' = "L100"
          /\ UNCHANGED <<stack, exc>>
       \/ /\ Raise("DeviceError")
          /\ UNCHANGED <<reg, trace>>
    /\ UNCHANGED <<inputs, is_connected, arm, loopvars, ncalls>>

connect_L100 ==
    /\ pc = "L100"
    /\ \/ /\ trace' = Append(trace, [op |-> "read", line |-> 100, arm |-> arm,
                                     reg |-> "Present_Position"])
          /\ IF arm < num_follower_arms
             THEN /\ arm' = arm + 1
                  /\ pc' = "L99"
             ELSE /\ arm' = arm
                  /\ pc' = "L102"
          /\ UNCHANGED <<stack, exc>>
       \/ /\ Raise("DeviceError")
          /\ UNCHANGED <<arm, trace>>
    /\ UNCHANGED <<inputs, is_connected, reg, loopvars, ncalls>>

connect_L102 ==
    /\ pc = "L102"
    /\ is_connected' = TRUE
    /\ Return
    /\ UNCHANGED <<inputs, arm, reg, loopvars, ncalls, trace>>

\* --------------------------------------------- SO100Robot.set_target_state
set_target_state_L192 ==
    /\ pc = "L192"
    /\ \/ /\ trace' = Append(trace, [op |-> "send_action", line |-> 192,
                                     target |-> target_state])
          /\ Return
       \/ /\ Raise("DeviceError")
          /\ UNCHANGED trace
    /\ UNCHANGED <<inputs, is_connected, arm, reg, loopvars, ncalls>>

\* ----------------------------------------- SO100Robot.move_to_initial_pose
move_to_initial_pose_L126 ==
    /\ pc = "L126"
    /\ \/ /\ nreads' = nreads + 1
          /\ trace' = Append(trace, [op |-> "capture_observation", line |-> 126,
                                     read |-> nreads + 1])
          /\ pc' = "L128"
          /\ UNCHANGED <<stack, exc>>
       \/ /\ Raise("DeviceError")
          /\ UNCHANGED <<nreads, trace>>
    /\ UNCHANGED <<inputs, is_connected, arm, reg, outer_iter, inner_iter, i, state,
                   action, concat_action, target_state, nreqs, ncalls>>

move_to_initial_pose_L128 ==
    /\ pc = "L128"
    /\ \/ /\ trace' = Append(trace, [op |-> "capture_observation", line |-> 128])
          /\ pc' = "L145"
          /\ UNCHANGED <<stack, exc>>
       \/ /\ Raise("DeviceError")
          /\ UNCHANGED trace
    /\ UNCHANGED <<inputs, is_connected, arm, reg, loopvars, ncalls>>

move_to_initial_pose_L145 ==
    /\ pc = "L145"
    /\ \/ /\ trace' = Append(trace, [op |-> "send_action", line |-> 145,
                                     target |-> Repeat("initial", num_follower_arms)])
          /\ pc' = "L146"
          /\ UNCHANGED <<stack, exc>>
       \/ /\ Raise("DeviceError")
          /\ UNCHANGED trace
    /\ UNCHANGED <<inputs, is_connected, arm, reg, loopvars, ncalls>>

move_to_initial_pose_L146 ==
    /\ pc = "L146"
    /\ trace' = Append(trace, [op |-> "sleep", line |-> 146])
    /\ Return
    /\ UNCHANGED <<inputs, is_connected, arm, reg, loopvars, ncalls>>

\* --------------------------------------------- SO100Robot.enable / disable
enable_L196 ==
    /\ pc = "L196"
    /\ IF ~is_connected
       THEN /\ Return
            /\ arm' = arm
       ELSE /\ pc' = "L202"
            /\ arm' = 1
            /\ UNCHANGED <<stack, exc>>
    /\ UNCHANGED <<inputs, is_connected, reg, loopvars, ncalls, trace>>

enable_L202 ==
    /\ pc = "L202"
    /\ \/ /\ trace' = Append(trace, [op |-> "write", line |-> 202, arm |-> arm,
                                     reg |-> "Torque_Enable", val |-> "ENABLED"])
          /\ IF arm < num_follower_arms
             THEN /\ arm' = arm + 1
                  /\ pc' = "L202"
                  /\ UNCHANGED <<stack, exc>>
             ELSE /\ arm' = arm
                  /\ Return
       \/ /\ Raise("DeviceError")
          /\ UNCHANGED <<arm, trace>>
    /\ UNCHANGED <<inputs, is_connected, reg, loopvars, ncalls>>

disable_L206 ==
    /\ pc = "L206"
    /\ IF ~is_connected
       THEN /\ Return
            /\ arm' = arm
       ELSE /\ pc' = "L212"
            /\ arm' = 1
            /\ UNCHANGED <<stack, exc>>
    /\ UNCHANGED <<inputs, is_connected, reg, loopvars, ncalls, trace>>

disable_L212 ==
    /\ pc = "L212"
    /\ \/ /\ trace' = Append(trace, [op |-> "write", line |-> 212, arm |-> arm,
                                     reg |-> "Torque_Enable", val |-> "DISABLED"])
          /\ IF arm < num_follower_arms
             THEN /\ arm' = arm + 1
                  /\ pc' = "L212"
                  /\ UNCHANGED <<stack, exc>>
             ELSE /\ arm' = arm
                  /\ Return
       \/ /\ Raise("DeviceError")
          /\ UNCHANGED <<arm, trace>>
    /\ UNCHANGED <<inputs, is_connected, reg, loopvars, ncalls>>

\* --------------------------------------------------- SO100Robot.disconnect
disconnect_L216 ==
    /\ pc = "L216"
    /\ IF is_connected
       THEN /\ stack' = <<"L217">> \o stack
            /\ pc' = "L206"
            /\ exc' = exc
       ELSE Return
    /\ UNCHANGED <<inputs, is_connected, arm, reg, loopvars, ncalls, trace>>

disconnect_L218 ==
    /\ pc = "L218"
    /\ \/ /\ trace' = Append(trace, [op |-> "robot.disconnect", line |-> 218])
          /\ pc' = "L219"
       \/ /\ pc' = "L221"
          /\ UNCHANGED trace
    /\ UNCHANGED <<inputs, is_connected, stack, exc, arm, reg, loopvars, ncalls>>

disconnect_L219 ==
    /\ pc = "L219"
    /\ is_connected' = FALSE
    /\ Return
    /\ UNCHANGED <<inputs, arm, reg, loopvars, ncalls, trace>>

\* except Exception as e: print(...)
disconnect_L221 ==
    /\ pc = "L221"
    /\ Return
    /\ UNCHANGED <<inputs, is_connected, arm, reg, loopvars, ncalls, trace>>

\* ----------------------------------------------------- SO100Robot.activate
\* with robot.activate(): -> try: self.connect()
activate_L83 ==
    /\ pc = "L377"
    /\ stack' = <<"L83">> \o stack
    /\ pc' = "L90"
    /\ UNCHANGED <<inputs, is_connected, exc, arm, reg, loopvars, ncalls, trace>>

activate_L84 ==
    /\ pc = "L84"
    /\ stack' = <<"L84">> \o stack
    /\ pc' = "L126"
    /\ UNCHANGED <<inputs, is_connected, exc, arm, reg, loopvars, ncalls, trace>>

\* finally: self.disconnect()
activate_L87 ==
    /\ pc = "L87"
    /\ stack' = <<"L87">> \o stack
    /\ pc' = "L216"
    /\ UNCHANGED <<inputs, is_connected, exc, arm, reg, loopvars, ncalls, trace>>

\* ------------------------------------------------------ policy responses
\* Shape of one entry action[key][idx] of a response: <<>> is a 0-d scalar,
\* <<n>> a vector of n values.
Size(shape) == IF shape = <<>> THEN 1 ELSE shape[1]

Shapes(main_arm, main_gripper, cv_arm, cv_gripper) ==
    ("action.main_arm" :> main_arm) @@ ("action.main_gripper" :> main_gripper) @@
    ("action.cv_arm" :> cv_arm) @@ ("action.cv_gripper" :> cv_gripper)

\* per-key entry shapes a server may answer with: the layout of the state
\* keys, grippers as scalars, another split of 12 values, one value too many
ResponseShapes ==
    { Shapes(<<ArmDim>>, <<1>>, <<ArmDim>>, <<1>>),
      Shapes(<<ArmDim>>, <<>>, <<ArmDim>>, <<>>),
      Shapes(<<ArmDim - 1>>, <<2>>, <<ArmDim>>, <<1>>),
      Shapes(<<ArmDim>>, <<1>>, <<ArmDim>>, <<2>>) }

NoAction == [req |-> 0, len |-> 0, shape |-> Shapes(<<>>, <<>>, <<>>, <<>>)]

\* action[key][idx]: the values are tagged with the request, the chunk index,
\* the key and the component they are
Entry(act, key, idx) ==
    [shape |-> act.shape[key],
     data |-> [c \in 1..Size(act.shape[key]) |->
                 [req |-> act.req, idx |-> idx, key |-> key, c |-> c - 1]]]

\* np.atleast_1d
AtLeast1d(x) == [shape |-> IF x.shape = <<>> THEN <<1>> ELSE x.shape, data |-> x.data]

\* np.concatenate([np.atleast_1d(action[key][i]) for key in MODALITY_KEYS], axis=0)
ConcatAction(act, idx) ==
    Flatten([k \in DOMAIN MODALITY_KEYS |-> AtLeast1d(Entry(act, MODALITY_KEYS[k], idx)).data])

\* ------------------------------------------------- __main__ control loop
\* for i in tqdm(range(ACTIONS_TO_EXECUTE)): next value, or leave the with-block
main_L378 ==
    /\ pc = "L378"
    /\ IF outer_iter < ACTIONS_TO_EXECUTE
       THEN /\ i' = outer_iter
            /\ outer_iter' = outer_iter + 1
            /\ pc' = "L379"
       ELSE /\ pc' = "L87"
            /\ UNCHANGED <<i, outer_iter>>
    /\ UNCHANGED <<inputs, is_connected, stack, exc, arm, reg, inner_iter, state, action,
                   concat_action, target_state, nreads, nreqs, ncalls, trace>>

\* imgs = robot.get_all_camera_images(); view_imgs(imgs)
main_L379 ==
    /\ pc = "L379"
    /\ \/ /\ trace' = trace \o << [op |-> "get_all_camera_images", line |-> 379],
                                  [op |-> "view_imgs", line |-> 380] >>
          /\ pc' = "L382"
          /\ UNCHANGED <<stack, exc>>
       \/ /\ Raise("DeviceError")
          /\ UNCHANGED trace
    /\ UNCHANGED <<inputs, is_connected, arm, reg, loopvars, ncalls>>

\* variant: line 382 dropped, the request is built from whatever `state` holds
main_L382_stale ==
    /\ pc = "L382"
    /\ pc' = "L385"
    /\ UNCHANGED <<inputs, is_connected, stack, exc, arm, reg, loopvars, ncalls, trace>>

\* state = robot.get_current_state()
main_L382 ==
    /\ pc = "L382"
    /\ \/ /\ nreads' = nreads + 1
          /\ state' = StateVec(nreads + 1, num_follower_arms)
          /\ trace' = Append(trace, [op |-> "capture_observation", line |-> 382,
                                     read |-> nreads + 1, it |-> outer_iter])
          /\ pc' = "L385"
          /\ UNCHANGED <<stack, exc>>
       \/ /\ Raise("DeviceError")
          /\ UNCHANGED <<nreads, state, trace>>
    /\ UNCHANGED <<inputs, is_connected, arm, reg, outer_iter, inner_iter, i, action,
                   concat_action, target_state, nreqs, ncalls>>

\* action = client.get_action(imgs, state); the for statement of line 389
\* creates the iterator of range(ACTION_HORIZON)
main_L385 ==
    /\ pc = "L385"
    /\ \/ /\ \E len \in 1..MaxChunk, shape \in ResponseShapes :
                action' = [req |-> nreqs + 1, len |-> len, shape |-> shape]
          /\ nreqs' = nreqs + 1
          /\ trace' = Append(trace, [op |-> "policy.get_action", line |-> 288,
                                     req |-> nreqs + 1, it |-> outer_iter,
                                     obs |-> ObsState(state)])
          /\ inner_iter' = 0
          /\ pc' = "L389"
          /\ UNCHANGED <<stack, exc>>
       \/ /\ Raise("InferenceError")
          /\ UNCHANGED <<action, nreqs, trace, inner_iter>>
    /\ UNCHANGED <<inputs, is_connected, arm, reg, outer_iter, i, state,
                   concat_action, target_state, nreads, ncalls>>

\* variant: range(ACTION_HORIZON + 1)
main_L389_one_more ==
    /\ pc = "L389"
    /\ IF inner_iter < ACTION_HORIZON + 1
       THEN /\ i' = inner_iter
            /\ inner_iter' = inner_iter + 1
            /\ pc' = "L390"
       ELSE /\ pc' = "L378"
            /\ UNCHANGED <<i, inner_iter>>
    /\ UNCHANGED <<inputs, is_connected, stack, exc, arm, reg, outer_iter, state, action,
                   concat_action, target_state, nreads, nreqs, ncalls, trace>>

\* for i in range(ACTION_HORIZON): next value, or back to the outer loop
main_L389 ==
    /\ pc = "L389"
    /\ IF inner_iter < ACTION_HORIZON
       THEN /\ i' = inner_iter
            /\ inner_iter' = inner_iter + 1
            /\ pc' = "L390"
       ELSE /\ pc' = "L378"
            /\ UNCHANGED <<i, inner_iter>>
    /\ UNCHANGED <<inputs, is_connected, stack, exc, arm, reg, outer_iter, state, action,
                   concat_action, target_state, nreads, nreqs, ncalls, trace>>

\* concat_action = np.concatenate([... action[key][i] ...])
main_L390 ==
    /\ pc = "L390"
    /\ IF i < action.len
       THEN /\ concat_action' = ConcatAction(action, i)
            /\ pc' = "L394"
            /\ UNCHANGED <<stack, exc>>
       ELSE /\ Raise("IndexError")
            /\ UNCHANGED concat_action
    /\ UNCHANGED <<inputs, is_connected, arm, reg, outer_iter, inner_iter, i, state, action,
                   target_state, nreads, nreqs, ncalls, trace>>

\* assert concat_action.shape == (12,), concat_action.shape
main_L394 ==
    /\ pc = "L394"
    /\ IF Len(concat_action) = AssertedLen
       THEN /\ pc' = "L397"
            /\ UNCHANGED <<stack, exc>>
       ELSE Raise("AssertionError")
    /\ UNCHANGED <<inputs, is_connected, arm, reg, loopvars, ncalls, trace>>

\* robot.set_target_state(torch.from_numpy(concat_action))
main_L397 ==
    /\ pc = "L397"
    /\ target_state' = concat_action
    /\ stack' = <<"L397">> \o stack
    /\ pc' = "L192"
    /\ UNCHANGED <<inputs, is_connected, exc, arm, reg, outer_iter, inner_iter, i, state,
                   action, concat_action, nreads, nreqs, ncalls, trace>>

\* time.sleep(0.01)
main_L398 ==
    /\ pc = "L398"
    /\ trace' = Append(trace, [op |-> "sleep", line |-> 398])
    /\ pc' = "L401"
    /\ UNCHANGED <<inputs, is_connected, stack, exc, arm, reg, loopvars, ncalls>>

\* imgs = robot.get_all_camera_images(); view_imgs(imgs)
main_L401 ==
    /\ pc = "L401"
    /\ \/ /\ trace' = trace \o << [op |-> "get_all_camera_images", line |-> 401],
                                  [op |-> "view_imgs", line |-> 402] >>
          /\ pc' = "L403"
          /\ UNCHANGED <<stack, exc>>
       \/ /\ Raise("DeviceError")
          /\ UNCHANGED trace
    /\ UNCHANGED <<inputs, is_connected, arm, reg, loopvars, ncalls>>

\* state = robot.get_current_state()
main_L403 ==
    /\ pc = "L403"
    /\ \/ /\ nreads' = nreads + 1
          /\ state' = StateVec(nreads + 1, num_follower_arms)
          /\ trace' = Append(trace, [op |-> "capture_observation", line |-> 403,
                                     read |-> nreads + 1, it |-> outer_iter])
          /\ pc' = "L404"
          /\ UNCHANGED <<stack, exc>>
       \/ /\ Raise("DeviceError")
          /\ UNCHANGED <<nreads, state, trace>>
    /\ UNCHANGED <<inputs, is_connected, arm, reg, outer_iter, inner_iter, i, action,
                   concat_action, target_state, nreqs, ncalls>>

\* rr.set_time_seconds(...); for i in range(len(concat_action)): rr.log(state[i]),
\* rr.log(concat_action[i]); print("executing action", i, ...)
main_L404 ==
    /\ pc = "L404"
    /\ IF Len(state) >= Len(concat_action)
       THEN /\ trace' = Append(trace, [op |-> "rr.log", line |-> 406,
                                       pairs |-> Len(concat_action),
                                       state |-> state, action |-> concat_action])
            /\ i' = IF Len(concat_action) > 0 THEN Len(concat_action) - 1 ELSE i
            /\ pc' = "L389"
            /\ UNCHANGED <<stack, exc>>
       ELSE \* state[i] raises at i = len(state), after len(state) logged pairs
            /\ trace' = Append(trace, [op |-> "rr.log", line |-> 406,
                                       pairs |-> Len(state),
                                       state |-> state, action |-> concat_action])
            /\ i' = Len(state)
            /\ Raise("IndexError")
    /\ UNCHANGED <<inputs, is_connected, arm, reg, outer_iter, inner_iter, state, action,
                   concat_action, target_state, nreads, nreqs, ncalls>>

\* ------------------------------------------- a client of the SO100Robot API
ApiCall(entry) ==
    /\ pc = "idle"
    /\ ncalls < MaxCalls
    /\ ncalls' = ncalls + 1
    /\ stack' = <<"api">>
    /\ exc' = "none"
    /\ pc' = entry

call_connect ==
    /\ ApiCall("L90")
    /\ UNCHANGED <<inputs, is_connected, arm, reg, loopvars, trace>>

call_disconnect ==
    /\ ApiCall("L216")
    /\ UNCHANGED <<inputs, is_connected, arm, reg, loopvars, trace>>

call_enable ==
    /\ ApiCall("L196")
    /\ UNCHANGED <<inputs, is_connected, arm, reg, loopvars, trace>>

call_disable ==
    /\ ApiCall("L206")
    /\ UNCHANGED <<inputs, is_connected, arm, reg, loopvars, trace>>

call_set_target_state ==
    /\ ApiCall("L192")
    /\ target_state' = Repeat("target", num_follower_arms)
    /\ UNCHANGED <<inputs, is_connected, arm, reg, outer_iter, inner_iter, i, state, action,
                   concat_action, nreads, nreqs, trace>>

\* ---------------------------------------------------------- specifications
InitCommon ==
    /\ num_follower_arms \in 1..MaxArms
    /\ is_connected = FALSE
    /\ stack = <<>>
    /\ exc = "none"
    /\ arm = 1
    /\ reg = 1
    /\ outer_iter = 0
    /\ inner_iter = 0
    /\ i = 0
    /\ state = <<>>
    /\ action = NoAction
    /\ concat_action = <<>>
    /\ target_state = <<>>
    /\ nreads = 0
    /\ nreqs = 0
    /\ ncalls = 0
    /\ trace = <<>>

Init ==
    /\ ACTIONS_TO_EXECUTE \in 0..MaxActions
    /\ ACTION_HORIZON \in 0..MaxHorizon
    /\ pc = "L377"
    /\ InitCommon

Methods ==
    \/ connect_L90 \/ connect_L95 \/ set_so100_robot_preset \/ connect_L100
    \/ connect_L102
    \/ set_target_state_L192
    \/ disable_L206 \/ disable_L212
    \/ disconnect_L216 \/ disconnect_L218 \/ disconnect_L219 \/ disconnect_L221

Next ==
    \/ activate_L83 \/ activate_L84 \/ activate_L87
    \/ move_to_initial_pose_L126 \/ move_to_initial_pose_L128
    \/ move_to_initial_pose_L145 \/ move_to_initial_pose_L146
    \/ main_L378 \/ main_L379 \/ main_L382 \/ main_L385 \/ main_L389 \/ main_L390
    \/ main_L394 \/ main_L397 \/ main_L398 \/ main_L401 \/ main_L403 \/ main_L404
    \/ Methods

Spec == Init /\ [][Next]_vars

InitAPI ==
    /\ ACTIONS_TO_EXECUTE = 0
    /\ ACTION_HORIZON = 0
    /\ pc = "idle"
    /\ InitCommon

NextAPI ==
    \/ call_connect \/ call_disconnect \/ call_enable \/ call_disable
    \/ call_set_target_state
    \/ enable_L196 \/ enable_L202
    \/ Methods

SpecAPI == InitAPI /\ [][NextAPI]_vars

\* ------------------------------------------------------------ properties
\* a command sent by the control loop through set_target_state
LoopSend(e) == e.op = "send_action" /\ e.line = 192

\* the first external call of an iteration of the outer loop (line 379)
IterStart(e) == e.op = "get_all_camera_images" /\ e.line = 379

\* the run left the with-block normally and disconnect() is over
Completed == pc = "exit" /\ exc = "none"

SendPositions == {p \in DOMAIN trace : LoopSend(trace[p])}
ReqPositions == {b \in DOMAIN trace : trace[b].op = "policy.get_action"}
StartPositions == {q \in DOMAIN trace : IterStart(trace[q])}

\* the least position of S above p (Len(trace) + 1 if none)
NextIn(S, p) ==
    LET later == {q \in S : q > p}
    IN  IF later = {} THEN Len(trace) + 1
        ELSE CHOOSE q \in later : \A r \in later : q <= r

\* C1: every command the loop sends is preceded, in its own iteration, by
\* the state read of line 382 and then by the inference request built from
\* exactly that state, with no command of the iteration before the request;
\* and the command is logged (all its entries, with the state read after it)
\* before the next command, the next iteration or the normal end of the run.
C1_LoopOrder ==
    LET sends == SendPositions
        starts == StartPositions
        \* the external calls of the iteration that started at position s
        Body(s) == s..(NextIn(starts, s) - 1)
    IN  /\ \A p \in sends : \E s \in starts : s < p
        /\ \A s \in starts :
              LET mine == {p \in sends : p \in Body(s)}
                  reads == {a \in Body(s) : /\ trace[a].op = "capture_observation"
                                            /\ trace[a].line = 382}
                  reqs == {b \in Body(s) : trace[b].op = "policy.get_action"}
              IN  mine # {} =>
                     \E a \in reads, b \in reqs :
                        /\ a < b
                        /\ trace[b].obs =
                              ObsState(StateVec(trace[a].read, num_follower_arms))
                        /\ \A p \in mine : b < p
        /\ \A p \in sends :
              LET next == NextIn(sends \cup starts, p)
              IN  (next <= Len(trace) \/ Completed) =>
                     \E l \in (p + 1)..(next - 1) :
                        /\ trace[l].op = "rr.log"
                        /\ trace[l].action = trace[p].target
                        /\ trace[l].pairs = Len(trace[p].target)

\* C1 witness: a run that ended normally after two iterations that each sent
\* a command
C1_Witness ==
    /\ Completed
    /\ \E s1 \in StartPositions, s2 \in StartPositions :
          /\ s1 < s2
          /\ \E p \in SendPositions : s1 < p /\ p < s2
          /\ \E p \in SendPositions : s2 < p

\* C2: no command is sent before the first request; the commands sent after
\* a request are at most ACTION_HORIZON, exactly ACTION_HORIZON once the next
\* request is issued or the run has ended normally; the k-th of them is built
\* from entry k-1 of that request's response and from nothing else; every
\* command is directly followed by the sleep of line 398.
C2_Sequential ==
    LET sends == SendPositions
        reqs == ReqPositions
    IN  /\ \A p \in sends : \E b \in reqs : b < p
        /\ \A b \in reqs :
              LET next == NextIn(reqs, b)
                  after == {p \in sends : b < p /\ p < next}
              IN  /\ Cardinality(after) <= ACTION_HORIZON
                  /\ (next <= Len(trace) \/ Completed) =>
                        Cardinality(after) = ACTION_HORIZON
                  /\ \A p \in after :
                        LET k == Cardinality({q \in after : q < p})
                        IN  /\ trace[p].target # <<>>
                            /\ \A c \in DOMAIN trace[p].target :
                                  /\ trace[p].target[c].req = trace[b].req
                                  /\ trace[p].target[c].idx = k
        /\ \A p \in sends :
              p < Len(trace) => (trace[p + 1].op = "sleep" /\ trace[p + 1].line = 398)

\* C2 witness: a run that ended normally with two requests, each followed by
\* at least two commands
C2_Witness ==
    /\ Completed
    /\ ACTION_HORIZON >= 2
    /\ Cardinality(ReqPositions) >= 2
    /\ Cardinality(SendPositions) = ACTION_HORIZON * Cardinality(ReqPositions)

\* C3: a run that completes without error has sent exactly
\* ACTIONS_TO_EXECUTE commands through set_target_state.
C3_ActionsToExecute ==
    Completed => Cardinality(SendPositions) = ACTIONS_TO_EXECUTE

\* the external calls of one successful connect() on a robot with n arms
RECURSIVE ConnectCalls(_)
ConnectCalls(n) ==
    IF n = 0 THEN << [op |-> "robot.connect", line |-> 95] >>
    ELSE ConnectCalls(n - 1)
         \o [r \in DOMAIN PRESET |-> [op |-> "write", line |-> 99, arm |-> n,
                                      reg |-> PRESET[r][1], val |-> PRESET[r][2]]]
         \o << [op |-> "read", line |-> 100, arm |-> n, reg |-> "Present_Position"] >>

\* the external calls made since the last robot.connect(), that call included
SinceConnect(t) ==
    LET at == {q \in DOMAIN t : t[q].op = "robot.connect"}
    IN  IF at = {} THEN <<>>
        ELSE LET last == CHOOSE q \in at : \A r \in at : r <= q
             IN  SubSeq(t, last, Len(t))

\* C4: connect() on a connected robot raises RobotDeviceAlreadyConnectedError
\* to its caller, makes no external call and leaves is_connected True;
\* is_connected turns True only after robot.connect() followed by the seven
\* preset writes (and the position read) of every follower arm, in arm order,
\* and is False for the whole of connect() before that.
C4_Connect ==
    [][ /\ (pc = "L90" /\ is_connected) =>
              /\ exc' = "RobotDeviceAlreadyConnectedError"
              /\ pc' = Handler(Head(stack))
              /\ trace' = trace
              /\ is_connected'
        /\ (~is_connected /\ is_connected') =>
              /\ pc = "L102"
              /\ SinceConnect(trace') = ConnectCalls(num_follower_arms)
        /\ (pc' \in {"L95", "L99", "L100", "L102"}) => ~is_connected'
      ]_vars

\* C4 witness: a second connect() was refused on a robot a full connect()
\* had connected
C4_Witness ==
    /\ pc = "idle"
    /\ exc = "RobotDeviceAlreadyConnectedError"
    /\ is_connected
    /\ SinceConnect(trace) = ConnectCalls(num_follower_arms)

\* the action key that carries the same joints as a state key
ActionKeyOf == [main_arm |-> "action.main_arm", main_gripper |-> "action.main_gripper",
                cv_arm |-> "action.cv_arm", cv_gripper |-> "action.cv_gripper"]

\* the 0-based indices a state key is read from
StateRange(key) == STATE_SLICES[key][1]..(STATE_SLICES[key][2] - 1)

\* the 0-based indices of v that hold values of the action key
ActionRange(v, key) == {p - 1 : p \in {q \in DOMAIN v : v[q].key = key}}

\* every action key occupies the indices its state key is read from
LayoutMatches(v) ==
    \A key \in DOMAIN STATE_SLICES : ActionRange(v, ActionKeyOf[key]) = StateRange(key)

\* the state ranges are pairwise disjoint and cover 0..11
StateRangesPartition ==
    /\ \A k1 \in DOMAIN STATE_SLICES, k2 \in DOMAIN STATE_SLICES :
          k1 # k2 => StateRange(k1) \cap StateRange(k2) = {}
    /\ UNION {StateRange(key) : key \in DOMAIN STATE_SLICES} = 0..(AssertedLen - 1)

\* the response entries have the widths of the state slices (a scalar is 1 wide)
WidthsAsState(act) ==
    \A key \in DOMAIN STATE_SLICES :
       Size(act.shape[ActionKeyOf[key]]) = Cardinality(StateRange(key))

====
